---- MODULE Spec2Model ----
(***************************************************************************)
(* Model of cat/mad_hatter/decorators/tool.py: the @tool decorator and the *)
(* CatTool wrapper (assign_cat, _run, _arun).                              *)
(*                                                                         *)
(* Python strings are sequences of characters, so that str.strip and       *)
(* str.replace are computed character by character. A character is a      *)
(* one-character string, or "U+XXXX" for a code point that a string        *)
(* literal cannot spell.                                                   *)
(* Optional values (None or a value) are sequences of length 0 or 1.       *)
(***************************************************************************)
EXTENDS Naturals, Sequences, FiniteSets, Bags

VARIABLES targs, decorated, tool_, pending, raised, calls, bound, ticks

vars == <<targs, decorated, tool_, pending, raised, calls, bound, ticks>>

\* ------------------------------------------------------------------ bounds
\* Invocations of the wrapper that may be in progress or finished.
MaxCalls == 2
\* Steps the second cooperative task of the event loop may take.
MaxTicks == 1

\* ------------------------------------------------------------ Python values
None == <<>>
Some(x) == <<x>>

\* Python truthiness of an optional string: None and "" are falsy.
Truthy(opt) == opt # None /\ opt[1] # <<>>

\* ------------------------------------------------------------- str methods
\* The characters str.strip() removes: every character c with c.isspace().
\* Those a string literal here cannot spell are written as their code point.
Whitespace ==
    { "\t", "\n", "U+000B", "\f", "\r",
      "U+001C", "U+001D", "U+001E", "U+001F", " ",
      "U+0085", "U+00A0", "U+1680",
      "U+2000", "U+2001", "U+2002", "U+2003", "U+2004", "U+2005",
      "U+2006", "U+2007", "U+2008", "U+2009", "U+200A",
      "U+2028", "U+2029", "U+202F", "U+205F", "U+3000" }

RECURSIVE lstrip(_)
lstrip(s) ==
    IF s # <<>> /\ Head(s) \in Whitespace THEN lstrip(Tail(s)) ELSE s

RECURSIVE rstrip(_)
rstrip(s) ==
    IF s # <<>> /\ s[Len(s)] \in Whitespace
    THEN rstrip(SubSeq(s, 1, Len(s) - 1))
    ELSE s

\* str.strip(): leading and trailing whitespace removed.
strip(s) == rstrip(lstrip(s))

\* s[i:i+len(p)] == p  (i is 1-based)
MatchAt(s, p, i) ==
    /\ i + Len(p) - 1 <= Len(s)
    /\ \A k \in 1..Len(p) : s[i + k - 1] = p[k]

RECURSIVE ReplaceFrom(_, _, _, _)
ReplaceFrom(s, old, new, i) ==
    IF i > Len(s) THEN <<>>
    ELSE IF MatchAt(s, old, i)
         THEN new \o ReplaceFrom(s, old, new, i + Len(old))
         ELSE <<s[i]>> \o ReplaceFrom(s, old, new, i + 1)

\* str.replace(old, new) for a non-empty old: every non-overlapping
\* occurrence, scanning left to right.
replace(s, old, new) == ReplaceFrom(s, old, new, 1)

RECURSIVE Join(_, _)
Join(parts, sep) ==
    IF parts = <<>> THEN <<>>
    ELSE IF Len(parts) = 1 THEN parts[1]
    ELSE parts[1] \o sep \o Join(Tail(parts), sep)

\* ------------------------------------------------- the decorated functions
\* A plugin function: __name__, its parameters (name, optional annotation,
\* optional default), its optional return annotation, __doc__, whether it is
\* declared with async def, and what its body does:
\*   "pure"  returns "r:" + input without touching the second argument,
\*   "deref" reads an attribute of the second argument,
\*   "raise" raises an error of its own.
Param(n, ann, dflt) == [name |-> n, ann |-> ann, dflt |-> dflt]

Func(n, ps, r, d, a, b) ==
    [name |-> n, params |-> ps, ret |-> r, doc |-> d, async |-> a, body |-> b]

NoFunc == Func(<<>>, <<>>, None, None, FALSE, "pure")

\* inspect.Parameter.__str__
FormatParam(p) ==
    LET named == IF p.ann # None THEN p.name \o <<":", " ">> \o p.ann[1]
                 ELSE p.name
    IN  IF p.dflt = None THEN named
        ELSE IF p.ann # None THEN named \o <<" ", "=", " ">> \o p.dflt[1]
        ELSE named \o <<"=">> \o p.dflt[1]

\* str(inspect.signature(func))
signature(func) ==
    LET parts == [i \in 1..Len(func.params) |-> FormatParam(func.params[i])]
        inner == <<"(">> \o Join(parts, <<",", " ">>) \o <<")">>
    IN  IF func.ret = None THEN inner
        ELSE inner \o <<" ", "-", ">", " ">> \o func.ret[1]

\* inspect.iscoroutinefunction(func)
iscoroutinefunction(func) == func.async

\* Python's argument binding for a call with npos positional arguments and
\* the keyword arguments named in kw: TRUE iff the call binds, FALSE iff it
\* raises TypeError (too many positionals, an unexpected or doubly bound
\* keyword, a parameter left without a value).
Bind(func, npos, kw) ==
    LET n == Len(func.params)
    IN  /\ npos <= n
        /\ \A k \in kw : \E i \in (npos + 1)..n : func.params[i].name = k
        /\ \A i \in (npos + 1)..n :
              func.params[i].name \in kw \/ func.params[i].dflt # None

\* ---------------------------------------------------------------- outcomes
NoOut == [kind |-> "none", val |-> <<>>]
Ok(v) == [kind |-> "ok", val |-> v]
Err(e) == [kind |-> "err", val |-> <<e>>]

\* What the function's body does once its arguments are bound: the
\* value it returns or the error it raises.
Body(func, input, cat) ==
    CASE func.body = "pure"  -> Ok(<<"r", ":">> \o input)
      [] func.body = "deref" -> IF cat = None THEN Err("AttributeError")
                                ELSE Ok(cat \o <<":">> \o input)
      [] OTHER               -> Err("ToolError")

\* func(input, cat): the direct positional call.
Direct(func, input, cat) ==
    IF Bind(func, 2, {}) THEN Body(func, input, cat) ELSE Err("TypeError")

\* ------------------------------------------------------------------ CatTool
NoTool == [none |-> TRUE]

\* The text ", cat)" that CatTool.__init__ replaces by ")".
CatMarker == <<",", " ", "c", "a", "t", ")">>

CatName == <<"c", "a", "t">>

\* CatTool.__init__ (func.__doc__ is a string here: _make_tool asserted it).
CatTool(name, func, description, return_direct, examples) ==
    [name |-> name,
     return_direct |-> return_direct,
     func |-> func,
     examples |-> examples,
     docstring |-> strip(func.doc[1]),
     description |-> replace(description, CatMarker, <<")">>),
     cat |-> None]

\* ------------------------------------------------------------- @tool
\* What a call at decoration time yields: a CatTool, a decorator still to be
\* applied to a function, or an exception.
NoDec == [kind |-> "none", tool_name |-> <<>>, return_direct |-> FALSE,
          examples |-> <<>>]

Made(t) == [kind |-> "tool", tool |-> t, dec |-> NoDec, err |-> ""]
Decorator(d) == [kind |-> "decorator", tool |-> NoTool, dec |-> d, err |-> ""]
Raise(e) == [kind |-> "raise", tool |-> NoTool, dec |-> NoDec, err |-> e]

\* _make_tool without its assertion: a missing docstring surfaces only as the
\* AttributeError of None.strip(), an empty one is accepted.
_make_tool_noassert(tool_name, return_direct, examples, func) ==
    IF func.doc = None THEN Raise("AttributeError")
    ELSE Made(CatTool(tool_name, func,
                      tool_name \o signature(func) \o <<":", " ">>
                          \o strip(func.doc[1]),
                      return_direct, examples))

\* _make_tool(func), closed over tool_name, return_direct and examples.
_make_tool(tool_name, return_direct, examples, func) ==
    IF ~Truthy(func.doc) THEN Raise("AssertionError")
    ELSE Made(CatTool(tool_name, func,
                      tool_name \o signature(func) \o <<":", " ">>
                          \o strip(func.doc[1]),
                      return_direct, examples))

\* _make_with_name(tool_name): the closure _make_tool.
_make_with_name(tool_name, return_direct, examples) ==
    [kind |-> "_make_tool", tool_name |-> tool_name,
     return_direct |-> return_direct, examples |-> examples]

\* The closure _partial of the keyword-only form.
_partial(return_direct, examples) ==
    [kind |-> "_partial", tool_name |-> <<>>,
     return_direct |-> return_direct, examples |-> examples]

\* Applying a decorator returned by tool(...) to a function.
ApplyTo(dec, func) ==
    IF dec.kind = "_make_tool"
    THEN _make_tool(dec.tool_name, dec.return_direct, dec.examples, func)
    ELSE _make_tool(func.name, dec.return_direct, dec.examples, func)

\* The positional arguments of tool(*args): strings, functions, or a
\* value that is neither (an int).
StrArg(s) == [type |-> "str", s |-> s, f |-> NoFunc]
FuncArg(f) == [type |-> "function", s |-> <<>>, f |-> f]
IntArg == [type |-> "int", s |-> <<>>, f |-> NoFunc]

callable(a) == a.type = "function"

\* tool(...) with the named form taking the function's own name instead of
\* the string argument.
tool_named_ignored(args, return_direct, examples) ==
    IF Len(args) = 1 /\ args[1].type = "str"
    THEN Decorator(_partial(return_direct, examples))
    ELSE IF Len(args) = 1 /\ callable(args[1])
    THEN ApplyTo(_make_with_name(args[1].f.name, return_direct, examples),
                 args[1].f)
    ELSE IF Len(args) = 0
    THEN Decorator(_partial(return_direct, examples))
    ELSE Raise("ValueError")

\* tool(*args, return_direct, examples)
tool(args, return_direct, examples) ==
    IF Len(args) = 1 /\ args[1].type = "str"
    THEN Decorator(_make_with_name(args[1].s, return_direct, examples))
    ELSE IF Len(args) = 1 /\ callable(args[1])
    THEN ApplyTo(_make_with_name(args[1].f.name, return_direct, examples),
                 args[1].f)
    ELSE IF Len(args) = 0
    THEN Decorator(_partial(return_direct, examples))
    ELSE Raise("ValueError")

\* -------------------------------------------------------- CatTool methods
\* assign_cat that binds only an unbound wrapper (a later call is ignored).
assign_cat_once(self, cat) ==
    IF self.cat = None THEN [self EXCEPT !.cat = cat] ELSE self

\* assign_cat that also resets the examples.
assign_cat_reset(self, cat) == [self EXCEPT !.cat = cat, !.examples = <<>>]

\* CatTool.assign_cat
assign_cat(self, cat) == [self EXCEPT !.cat = cat]

\* One invocation of the wrapper: the method (kind), its input, where it
\* stands (pc), the thread the underlying function runs on, the cat that was
\* read from the wrapper for the call, whether the underlying function was
\* called, and the outcome delivered to the invoker.
Call(kind, input, pc, thread, cat, called, out) ==
    [kind |-> kind, input |-> input, pc |-> pc, thread |-> thread,
     cat |-> cat, called |-> called, out |-> out]

Finished(kind, input, out) ==
    Call(kind, input, "done", "none", None, FALSE, out)

\* _run without the iscoroutinefunction guard.
_run_noguard(self, input_by_llm) ==
    IF ~Bind(self.func, 1, {CatName})
    THEN Finished("_run", input_by_llm, Err("TypeError"))
    ELSE Call("_run", input_by_llm, "running", "caller", self.cat, TRUE,
              NoOut)

\* _run that refuses to call the function while no cat is assigned.
_run_needs_cat(self, input_by_llm) ==
    IF iscoroutinefunction(self.func)
    THEN Finished("_run", input_by_llm, Err("NotImplementedError"))
    ELSE IF self.cat = None \/ ~Bind(self.func, 1, {CatName})
    THEN Finished("_run", input_by_llm, Err("TypeError"))
    ELSE Call("_run", input_by_llm, "running", "caller", self.cat, TRUE,
              NoOut)

\* CatTool._run up to the call of self.func(input_by_llm, cat=self.cat),
\* which runs on the invoker's own thread.
_run(self, input_by_llm) ==
    IF iscoroutinefunction(self.func)
    THEN Finished("_run", input_by_llm, Err("NotImplementedError"))
    ELSE IF ~Bind(self.func, 1, {CatName})
    THEN Finished("_run", input_by_llm, Err("TypeError"))
    ELSE Call("_run", input_by_llm, "running", "caller", self.cat, TRUE,
              NoOut)

\* _arun calling a synchronous function inline, on the event loop's thread.
_arun_inline(self, input_by_llm) ==
    IF iscoroutinefunction(self.func)
    THEN IF ~Bind(self.func, 1, {CatName})
         THEN Finished("_arun", input_by_llm, Err("TypeError"))
         ELSE Call("_arun", input_by_llm, "awaiting", "loop", self.cat, TRUE,
                   NoOut)
    ELSE IF self.cat = None
    THEN Finished("_arun", input_by_llm, Err("AttributeError"))
    ELSE Call("_arun", input_by_llm, "running", "loop", self.cat, TRUE,
              NoOut)

\* _arun reading self.cat.loop before it looks at the function.
_arun_loop_first(self, input_by_llm) ==
    IF self.cat = None
    THEN Finished("_arun", input_by_llm, Err("AttributeError"))
    ELSE IF iscoroutinefunction(self.func)
    THEN IF ~Bind(self.func, 1, {CatName})
         THEN Finished("_arun", input_by_llm, Err("TypeError"))
         ELSE Call("_arun", input_by_llm, "awaiting", "loop", self.cat, TRUE,
                   NoOut)
    ELSE Call("_arun", input_by_llm, "submitted", "worker", self.cat, FALSE,
              NoOut)

\* CatTool._arun from the first step of its coroutine to its first
\* suspension: the await of the asynchronous function called with
\* (input_by_llm, cat=self.cat), or the await of the future of
\* self.cat.loop.run_in_executor(None, self.func, input_by_llm, self.cat).
_arun(self, input_by_llm) ==
    IF iscoroutinefunction(self.func)
    THEN IF ~Bind(self.func, 1, {CatName})
         THEN Finished("_arun", input_by_llm, Err("TypeError"))
         ELSE Call("_arun", input_by_llm, "awaiting", "loop", self.cat, TRUE,
                   NoOut)
    ELSE IF self.cat = None
    THEN Finished("_arun", input_by_llm, Err("AttributeError"))
    ELSE Call("_arun", input_by_llm, "submitted", "worker", self.cat, FALSE,
              NoOut)

\* ------------------------------------------------------------------ inputs
Str_f == <<"f">>
Str_g == <<"g">>
Doc_D == Some(<<"D", ".">>)

P_q == Param(<<"q">>, None, None)
P_q_str == Param(<<"q">>, Some(<<"s", "t", "r">>), None)
P_cat == Param(CatName, None, None)
P_cat_annot == Param(CatName, Some(<<"C", "a", "t">>), None)
P_cat_dflt == Param(CatName, None, Some(<<"N", "o", "n", "e">>))
P_ctx == Param(<<"c", "t", "x">>, None, None)

\* Candidate functions handed to the decorator.
FactoryFuncs ==
    { Func(Str_f, <<P_q, P_cat>>, None, Doc_D, FALSE, "pure"),
      Func(Str_f, <<P_q_str, P_cat>>, Some(<<"s", "t", "r">>),
           Some(<<"U+00A0", "D", ".", "\r", "\n">>), FALSE, "pure"),
      Func(Str_g, <<P_q, P_cat_annot>>, None, Doc_D, FALSE, "pure"),
      Func(Str_g, <<P_q, P_cat_dflt>>, None, Doc_D, FALSE, "pure"),
      Func(Str_g, <<P_q, P_ctx>>, None, Doc_D, FALSE, "pure"),
      Func(Str_f, <<P_q, P_cat>>, None, None, FALSE, "pure"),
      Func(Str_f, <<P_q, P_cat>>, None, Some(<<>>), FALSE, "pure"),
      Func(Str_g, <<P_q, P_cat>>, None, Some(<<" ", "\n">>), FALSE, "pure"),
      Func(Str_g, <<P_q, P_cat>>, None,
           Some(<<"a", ",", " ", "c", "a", "t", ")">>), FALSE, "pure"),
      Func(Str_f, <<P_q, P_cat>>, None, Doc_D, TRUE, "pure"),
      Func(Str_g, <<P_q_str, P_cat>>, None, Doc_D, TRUE, "pure") }

ToolNames == { <<"s">>, <<"t">> }

ExampleLists == { <<>>, << <<"e">> >> }

\* The positional argument lists tool(*args) is called with.
ArgLists ==
    { <<>>, <<IntArg>> }
    \cup { <<StrArg(n)>> : n \in ToolNames }
    \cup { <<FuncArg(f)>> : f \in FactoryFuncs }
    \cup { <<StrArg(n), FuncArg(f)>> : n \in {<<"s">>}, f \in FactoryFuncs }
    \cup { <<StrArg(<<"s">>), StrArg(<<"t">>)>> }

\* Functions behind the wrappers that are invoked.
RuntimeFuncs ==
    { Func(Str_f, <<P_q, P_cat>>, None, Doc_D, FALSE, "pure"),
      Func(Str_f, <<P_q, P_ctx>>, None, Doc_D, FALSE, "pure"),
      Func(Str_f, <<P_q, P_cat>>, None, Doc_D, FALSE, "deref"),
      Func(Str_f, <<P_q, P_cat>>, None, Doc_D, FALSE, "raise"),
      Func(Str_f, <<P_q, P_cat>>, None, Doc_D, TRUE, "pure"),
      Func(Str_f, <<P_q, P_ctx>>, None, Doc_D, TRUE, "pure"),
      Func(Str_f, <<P_q, P_cat>>, None, Doc_D, TRUE, "deref"),
      Func(Str_f, <<P_q, P_cat>>, None, Doc_D, TRUE, "raise") }

Inputs == { <<"x">>, <<"y">> }

\* The runtime contexts (StrayCat instances, each with its event loop).
Cats == { Some("c1"), Some("c2") }

\* ----------------------------------------------------------- decoration
\* The state before anything was decorated.
InitFactory ==
    /\ targs = None
    /\ decorated = NoFunc
    /\ tool_ = NoTool
    /\ pending = NoDec
    /\ raised = ""
    /\ calls = EmptyBag
    /\ bound = None
    /\ ticks = 0

Settle(res) ==
    /\ tool_' = res.tool
    /\ pending' = res.dec
    /\ raised' = res.err
    /\ UNCHANGED <<calls, bound, ticks>>

\* tool(*args, return_direct=..., examples=...); targs and decorated record
\* the arguments of the call and the function it was applied to.
Decorate ==
    /\ targs = None
    /\ \E args \in ArgLists, rd \in BOOLEAN, ex \in ExampleLists :
          /\ targs' = Some(args)
          /\ decorated' = IF Len(args) = 1 /\ callable(args[1])
                          THEN args[1].f ELSE NoFunc
          /\ Settle(tool(args, rd, ex))

\* The decorator that tool(...) returned is applied to a function.
ApplyDecorator ==
    /\ pending # NoDec
    /\ \E f \in FactoryFuncs :
          /\ decorated' = f
          /\ UNCHANGED targs
          /\ Settle(ApplyTo(pending, f))

NextFactory == Decorate \/ ApplyDecorator

SpecFactory == InitFactory /\ [][NextFactory]_vars

\* ------------------------------------------------------------- invocation
\* A decorated wrapper, nothing invoked yet.
Init ==
    /\ tool_ \in { tool(<<FuncArg(f)>>, FALSE, << <<"e">> >>).tool :
                      f \in RuntimeFuncs }
    /\ decorated = tool_.func
    /\ targs = Some(<<FuncArg(tool_.func)>>)
    /\ pending = NoDec
    /\ raised = ""
    /\ calls = EmptyBag
    /\ bound = None
    /\ ticks = 0

InCalls == BagToSet(calls)

Swap(r, s) == calls' = (calls (-) SetToBag({r})) (+) SetToBag({s})

\* The event loop's thread is inside a function that has not returned.
LoopBusy == \E r \in InCalls : r.pc = "running" /\ r.thread = "loop"

\* The AgentManager binds a cat to the wrapper.
AssignCat ==
    \E c \in Cats :
        /\ tool_' = assign_cat(tool_, c)
        /\ bound' = c
        /\ UNCHANGED <<targs, decorated, pending, raised, calls, ticks>>

\* tool._run(input) is called on a thread that may block.
InvokeBlocking ==
    /\ BagCardinality(calls) < MaxCalls
    /\ \E input \in Inputs : calls' = calls (+) SetToBag({_run(tool_, input)})
    /\ UNCHANGED <<targs, decorated, tool_, pending, raised, bound, ticks>>

\* The function called inline returns or raises: so does the method.
FuncReturn ==
    \E r \in InCalls :
        /\ r.pc = "running" /\ r.thread # "worker"
        /\ Swap(r, [r EXCEPT !.pc = "done",
                             !.out = Body(tool_.func, r.input, r.cat)])
        /\ UNCHANGED <<targs, decorated, tool_, pending, raised, bound, ticks>>

\* tool._arun(input) is called: a coroutine that has not started.
InvokeSuspending ==
    /\ BagCardinality(calls) < MaxCalls
    /\ \E input \in Inputs :
          calls' = calls (+) SetToBag({Call("_arun", input, "created", "none",
                                            None, FALSE, NoOut)})
    /\ UNCHANGED <<targs, decorated, tool_, pending, raised, bound, ticks>>

\* The event loop runs the coroutine of _arun up to its first suspension.
ArunStart ==
    /\ ~LoopBusy
    /\ \E r \in InCalls :
          /\ r.pc = "created"
          /\ Swap(r, _arun(tool_, r.input))
    /\ UNCHANGED <<targs, decorated, tool_, pending, raised, bound, ticks>>

\* The awaited asynchronous function finishes: _arun returns its result or
\* lets its exception through.
AwaitDone ==
    /\ ~LoopBusy
    /\ \E r \in InCalls :
          /\ r.pc = "awaiting"
          /\ Swap(r, [r EXCEPT !.pc = "done",
                               !.out = Body(tool_.func, r.input, r.cat)])
    /\ UNCHANGED <<targs, decorated, tool_, pending, raised, bound, ticks>>

\* A worker of the loop's default executor takes the submitted call
\* self.func(input_by_llm, self.cat).
WorkerRun ==
    \E r \in InCalls :
        /\ r.pc = "submitted"
        /\ IF Bind(tool_.func, 2, {})
           THEN Swap(r, [r EXCEPT !.pc = "running", !.called = TRUE])
           ELSE Swap(r, [r EXCEPT !.pc = "resolved", !.out = Err("TypeError")])
        /\ UNCHANGED <<targs, decorated, tool_, pending, raised, bound, ticks>>

\* The function returns or raises on the worker: the future is resolved.
WorkerDone ==
    \E r \in InCalls :
        /\ r.pc = "running" /\ r.thread = "worker"
        /\ Swap(r, [r EXCEPT !.pc = "resolved",
                             !.out = Body(tool_.func, r.input, r.cat)])
        /\ UNCHANGED <<targs, decorated, tool_, pending, raised, bound, ticks>>

\* The event loop resumes _arun with the future's result or exception.
ArunResume ==
    /\ ~LoopBusy
    /\ \E r \in InCalls :
          /\ r.pc = "resolved"
          /\ Swap(r, [r EXCEPT !.pc = "done"])
    /\ UNCHANGED <<targs, decorated, tool_, pending, raised, bound, ticks>>

\* Another task of the same event loop takes a step.
Tick ==
    /\ ~LoopBusy
    /\ ticks < MaxTicks
    /\ ticks' = ticks + 1
    /\ UNCHANGED <<targs, decorated, tool_, pending, raised, calls, bound>>

Next ==
    \/ AssignCat
    \/ InvokeBlocking
    \/ FuncReturn
    \/ InvokeSuspending
    \/ ArunStart
    \/ AwaitDone
    \/ WorkerRun
    \/ WorkerDone
    \/ ArunResume
    \/ Tick

Spec == Init /\ [][Next]_vars

\* ================================================================ claims
IsSync == ~iscoroutinefunction(tool_.func)

\* The function's second parameter is the one the keyword cat binds to.
NamedCat == Bind(tool_.func, 1, {CatName})

\* Records that are in calls' and were not in calls: the result of the step.
Fresh(s) == CopiesIn(s, calls') > CopiesIn(s, calls)

\* Records the step took out of calls.
Gone(r) == CopiesIn(r, calls') < CopiesIn(r, calls)

\* C1: _arun on a synchronous function with a cat assigned runs the function
\* on a worker thread, never on the event loop's thread; while it runs, the
\* loop is free to step another task; and the result delivered is that of
\* the direct call func(input, cat).
C1_SyncOffloaded ==
    \A r \in InCalls :
        (r.kind = "_arun" /\ IsSync /\ r.pc # "created" /\ r.cat # None) =>
            /\ r.thread = "worker"
            /\ r.pc = "running" => ~LoopBusy
            /\ r.pc = "done" =>
                  r.called /\ r.out = Direct(tool_.func, r.input, r.cat)

\* C1 witness: one offloaded call has delivered the function's value, a
\* second one is running on a worker, and the other task can step.
C1_Witness ==
    /\ IsSync
    /\ \E r \in InCalls :
          /\ r.kind = "_arun" /\ r.pc = "done" /\ r.out.kind = "ok"
          /\ r.out = Direct(tool_.func, r.input, r.cat)
    /\ \E r \in InCalls :
          r.kind = "_arun" /\ r.pc = "running" /\ r.thread = "worker"
    /\ ENABLED Tick

\* C2: _run on an asynchronous function ends with NotImplementedError and
\* the function is never called, whether or not a cat is assigned.
C2_SyncOnAsyncRefused ==
    \A r \in InCalls :
        (r.kind = "_run" /\ ~IsSync) =>
            /\ r.pc = "done"
            /\ r.out = Err("NotImplementedError")
            /\ ~r.called

\* C2 witness: a cat is assigned and two calls of _run on the asynchronous
\* function were refused.
C2_Witness ==
    /\ ~IsSync
    /\ tool_.cat # None
    /\ \E r \in InCalls :
          /\ r.kind = "_run" /\ r.out = Err("NotImplementedError")
          /\ CopiesIn(r, calls) = 2

\* C3 as stated, for functions of the documented shape (str, cat) -> str: a
\* function that never touches the cat can be invoked through _run
\* (synchronous) and _arun (either kind) with or without a cat assigned, and
\* the call delivers the function's result.
C3_AsStated ==
    \A r \in InCalls :
        ( /\ tool_.func.body = "pure"
          /\ NamedCat
          /\ r.pc = "done"
          /\ (r.kind = "_arun" \/ IsSync) ) =>
            r.out = Ok(<<"r", ":">> \o r.input)

\* What a finished call of a function that never touches the cat delivered.
C3_Delivered(r) ==
    LET result == Ok(<<"r", ":">> \o r.input)
        refused == r.out = Err("TypeError") /\ ~r.called
    IN  CASE r.kind = "_run" /\ IsSync ->
                IF NamedCat THEN r.out = result ELSE refused
          [] r.kind = "_arun" /\ ~IsSync ->
                IF NamedCat THEN r.out = result ELSE refused
          [] r.kind = "_arun" /\ IsSync ->
                \/ r.out = result /\ r.cat # None
                \/ r.out = Err("AttributeError") /\ ~r.called
          [] OTHER -> TRUE

\* The first step of _arun on a synchronous function: submitted to a worker
\* with the assigned cat, or AttributeError when no cat is assigned.
C3_SyncStart ==
    \A r \in InCalls :
        (r.pc = "created" /\ Gone(r) /\ IsSync) =>
            IF tool_.cat = None
            THEN Fresh(Finished("_arun", r.input, Err("AttributeError")))
            ELSE Fresh(Call("_arun", r.input, "submitted", "worker",
                            tool_.cat, FALSE, NoOut))

\* C3 (amended): for a function that never touches the cat, _run on a
\* synchronous function and _arun on an asynchronous one deliver the result
\* with or without a cat assigned when the second parameter is named cat, and
\* end with TypeError without calling it otherwise; _arun on a synchronous
\* function delivers the result when a cat is assigned at its first step
\* (whatever the parameter's name) and ends with AttributeError, the function
\* not called, when none is.
C3_LegalInvocations ==
    /\ [](\A r \in InCalls :
             (tool_.func.body = "pure" /\ r.pc = "done") => C3_Delivered(r))
    /\ [][C3_SyncStart]_vars

\* C3 witness: with no cat assigned, _run has delivered the result of a
\* function that never touches the cat.
C3_Witness ==
    /\ tool_.cat = None
    /\ tool_.func.body = "pure"
    /\ \E r \in InCalls :
          /\ r.kind = "_run" /\ r.pc = "done" /\ r.called /\ r.cat = None
          /\ r.out = Ok(<<"r", ":">> \o r.input)

\* A record whose cat was just read from the wrapper for the call.
Dispatched(s) ==
    /\ Fresh(s)
    /\ \/ s.kind = "_run" /\ s.pc = "running"
       \/ s.kind = "_arun" /\ s.pc \in {"awaiting", "submitted"}

\* C4: a wrapper starts with no cat; every call hands the function the cat
\* of the most recent assign_cat before the step that starts it (none if
\* there was no assign_cat).
C4_LatestCatPassed ==
    /\ tool_.cat = None
    /\ [][\A s \in BagToSet(calls') : Dispatched(s) => s.cat = bound]_vars

\* C4 witness: after two assignments, a call that received the first cat and
\* a finished call that received the second and returned a value made of it.
C4_Witness ==
    /\ tool_.func.body = "deref"
    /\ \E r \in InCalls : r.called /\ r.cat = Some("c1")
    /\ \E r \in InCalls :
          /\ r.called /\ r.cat = Some("c2") /\ r.pc = "done"
          /\ r.out = Ok(<<"c2", ":">> \o r.input)
    /\ tool_.cat = Some("c2")

\* C5 as stated: whatever the parameters are called, _run on a synchronous
\* function calls it and delivers the outcome of func(input, cat).
C5_AsStated ==
    \A r \in InCalls :
        (r.kind = "_run" /\ IsSync /\ r.pc = "done") =>
            r.called /\ r.out = Direct(tool_.func, r.input, r.cat)

\* C5 (amended): when the second parameter of a synchronous function is
\* named cat, _run calls the function and delivers the outcome of
\* func(input, cat), the same outcome _arun delivers for the same input and
\* assigned cat; when it has another name _run ends with TypeError without
\* calling the function, while _arun still delivers func(input, cat).
C5_RunIsDirectCall ==
    /\ \A r \in InCalls :
          (r.kind = "_run" /\ IsSync /\ r.pc = "done") =>
              IF NamedCat
              THEN r.called /\ r.out = Direct(tool_.func, r.input, r.cat)
              ELSE ~r.called /\ r.out = Err("TypeError")
    /\ \A r1, r2 \in InCalls :
          ( /\ IsSync
            /\ r1.kind = "_run" /\ r1.pc = "done" /\ r1.called
            /\ r2.kind = "_arun" /\ r2.pc = "done" /\ r2.called
            /\ r1.input = r2.input /\ r1.cat = r2.cat ) =>
              r1.out = r2.out
    /\ \A r \in InCalls :
          (r.kind = "_arun" /\ IsSync /\ r.pc = "done" /\ r.called) =>
              r.out = Direct(tool_.func, r.input, r.cat)

\* C5 witness: _run and _arun have finished on the same input and cat with
\* the same value, which depends on both.
C5_Witness ==
    /\ IsSync
    /\ tool_.func.body = "deref"
    /\ \E r1, r2 \in InCalls :
          /\ r1.kind = "_run" /\ r1.pc = "done"
          /\ r2.kind = "_arun" /\ r2.pc = "done"
          /\ r1.input = r2.input /\ r1.cat = r2.cat /\ r1.cat # None
          /\ r1.out = r2.out /\ r1.out.kind = "ok"

\* The form of the tool(...) call that was made.
Form ==
    IF targs = None THEN "none"
    ELSE IF Len(targs[1]) = 1 /\ targs[1][1].type = "str" THEN "named"
    ELSE IF Len(targs[1]) = 1 /\ targs[1][1].type = "function" THEN "bare"
    ELSE IF Len(targs[1]) = 0 THEN "keyword"
    ELSE "other"

\* C6: decorating a function that has no docstring (None or empty) raises
\* the assertion's error and leaves no wrapper, in the bare, the named and
\* the keyword-only form.
C6_NoDocstringFails ==
    (Form \in {"bare", "named", "keyword"} /\ decorated # NoFunc
        /\ ~Truthy(decorated.doc)) =>
            /\ raised = "AssertionError"
            /\ tool_ = NoTool

\* C6 witness: the keyword-only form applied to a function whose __doc__ is
\* None has failed.
C6_Witness ==
    /\ Form = "keyword"
    /\ decorated # NoFunc /\ decorated.doc = None
    /\ raised = "AssertionError"
    /\ tool_ = NoTool

\* C7: every wrapper the decorator produces has a non-empty docstring.
C7_DocstringNonEmpty ==
    tool_ # NoTool => tool_.docstring # <<>>

\* The function without its trailing parameter.
WithoutLast(func) ==
    [func EXCEPT !.params = SubSeq(func.params, 1, Len(func.params) - 1)]

\* C8: for a function whose trailing parameter is cat (bare, annotated or
\* with a default), the description is "{name}{signature}: {docstring}" with
\* that parameter, and nothing else, taken out of the signature.
C8_CatStripped ==
    (tool_ # NoTool
        /\ tool_.func.params[Len(tool_.func.params)].name = CatName) =>
            tool_.description =
                tool_.name \o signature(WithoutLast(tool_.func))
                    \o <<":", " ">> \o strip(tool_.func.doc[1])

\* C9: the wrapper's name is the string argument in the named form and the
\* function's __name__ in the bare and keyword-only forms; any other
\* positional arguments raise ValueError and leave no decorator or wrapper.
C9_NameAndArgs ==
    /\ tool_ # NoTool =>
          /\ Form \in {"bare", "named", "keyword"}
          /\ tool_.name = IF Form = "named" THEN targs[1][1].s
                          ELSE tool_.func.name
    /\ Form = "other" =>
          raised = "ValueError" /\ tool_ = NoTool /\ pending = NoDec

\* C9 witness: the named form has produced a wrapper whose name is the
\* string, not the function's name.
C9_Witness ==
    /\ Form = "named"
    /\ tool_ # NoTool
    /\ tool_.name = targs[1][1].s
    /\ tool_.name # tool_.func.name

\* C10: a step of _run or _arun, returning or raising, leaves every field of
\* the wrapper as it was; a step that changes the wrapper is an assign_cat
\* and changes the cat alone.
C10_WrapperFrame ==
    [][ /\ calls' # calls => tool_' = tool_
        /\ tool_' # tool_ =>
              /\ calls' = calls
              /\ tool_' = [tool_ EXCEPT !.cat = bound'] ]_vars

\* C10 witness: with a cat assigned, one call has raised while another, of
\* the other method, is still in progress.
C10_Witness ==
    /\ tool_.cat # None
    /\ tool_.examples # <<>>
    /\ \E r1, r2 \in InCalls :
          /\ r1.kind = "_run" /\ r1.pc = "done" /\ r1.out.kind = "err"
          /\ r2.kind = "_arun" /\ r2.pc \in {"running", "resolved"}

====
